---- MODULE Spec2Model ----
(***************************************************************************)
(* WebsocketProvider (web3.js): a JSON-RPC transport over one WebSocket.   *)
(*                                                                         *)
(* Text is a sequence of one-character strings.  JSON values are records   *)
(* [t, v]; an object is the sequence of its <<key, value>> members in      *)
(* insertion order, as JSON.parse builds it and JSON.stringify walks it.   *)
(* The texts of this model use no backslash escapes and only unsigned      *)
(* integers as numbers.                                                    *)
(***************************************************************************)
EXTENDS Integers, Sequences, FiniteSets

VARIABLES
    url,           \* this.url, as parseURL reads it
    options,       \* this.options
    sockets,       \* every Ws created by connect; the last one is this.connection
    lastChunk,     \* this.lastChunk; <<>> stands for undefined, null and ""
    listeners,     \* the EventEmitter's registrations: event -> listeners, in order
    futures,       \* one per send() call: the Promise it returned
    timers,        \* requests whose setTimeout callback has not run yet
    op,            \* the operation that ran last, with its arguments
    sent,          \* the calls of connection.send it made, in order
    calls,         \* the listeners of collaborators it invoked, in order
    emits,         \* the calls of this.emit it made, in order
    returnValues,  \* what parseResponse returned in it
    steps          \* the number of operations so far

vars == <<url, options, sockets, lastChunk, listeners, futures, timers, op, sent, calls, emits,
          returnValues, steps>>

----------------------------------------------------------------------------
(* Bounds *)

\* the operations of one run
MaxSteps == 5
\* the longest leftover a further chunk is added to
MaxLeftover == 4

----------------------------------------------------------------------------
(* JSON values *)

Undefined == [t |-> "undefined", v |-> <<>>]
Null == [t |-> "null", v |-> <<>>]
Bool(b) == [t |-> "bool", v |-> b]
Num(n) == [t |-> "num", v |-> n]
Str(s) == [t |-> "str", v |-> s]
Arr(es) == [t |-> "arr", v |-> es]
Obj(ms) == [t |-> "obj", v |-> ms]

RECURSIVE Join(_, _)
Join(ss, sep) ==
    IF ss = <<>> THEN <<>>
    ELSE IF Len(ss) = 1 THEN ss[1]
    ELSE ss[1] \o sep \o Join(Tail(ss), sep)

StartsWithAt(s, i, p) ==
    /\ i + Len(p) - 1 <= Len(s)
    /\ \A k \in 1..Len(p) : s[i + k - 1] = p[k]

\* String.prototype.indexOf(p) !== -1
Contains(s, p) == \E i \in 1..(Len(s) + 1) : StartsWithAt(s, i, p)

Digit(d) == <<"0", "1", "2", "3", "4", "5", "6", "7", "8", "9">>[d + 1]
Digits == {"0", "1", "2", "3", "4", "5", "6", "7", "8", "9"}
DigitValue(c) == CHOOSE d \in 0..9 : Digit(d) = c

RECURSIVE NumText(_)
NumText(n) == IF n < 10 THEN <<Digit(n)>> ELSE NumText(n \div 10) \o <<Digit(n % 10)>>

Quote == "\""
Whitespace == {" ", "\n", "\r", "\t"}

\* JSON.stringify(value), without indentation
RECURSIVE Stringify(_)
Stringify(x) ==
    CASE x.t = "null" -> <<"n", "u", "l", "l">>
      [] x.t = "bool" -> IF x.v THEN <<"t", "r", "u", "e">> ELSE <<"f", "a", "l", "s", "e">>
      [] x.t = "num" -> NumText(x.v)
      [] x.t = "str" -> <<Quote>> \o x.v \o <<Quote>>
      [] x.t = "arr" ->
            <<"[">> \o Join([k \in 1..Len(x.v) |-> Stringify(x.v[k])], <<",">>) \o <<"]">>
      [] x.t = "obj" ->
            <<"{">>
            \o Join([k \in 1..Len(x.v) |->
                        <<Quote>> \o x.v[k][1] \o <<Quote, ":">> \o Stringify(x.v[k][2])],
                    <<",">>)
            \o <<"}">>

----------------------------------------------------------------------------
(* JSON.parse: a recursive-descent parser over positions.  Every parser    *)
(* returns [ok, val, pos]: pos is the position after what it consumed.     *)

ParseFail == [ok |-> FALSE, val |-> Undefined, pos |-> 0]
Parsed(x, p) == [ok |-> TRUE, val |-> x, pos |-> p]

\* the least of the positions hits of s, Len(s) + 1 when there is none
First(s, hits) ==
    IF hits = {} THEN Len(s) + 1 ELSE CHOOSE j \in hits : \A k \in hits : j <= k

SkipWs(s, i) == First(s, {j \in i..Len(s) : s[j] \notin Whitespace})

\* the position of the closing quote of the string whose first character is at i;
\* 0 when it is unterminated or holds a character JSON forbids unescaped
StringEnd(s, i) ==
    LET e == First(s, {j \in i..Len(s) : s[j] \in {Quote, "\n", "\r", "\t", "\\"}})
    IN IF e <= Len(s) /\ s[e] = Quote THEN e ELSE 0

NumberEnd(s, i) == First(s, {j \in i..Len(s) : s[j] \notin Digits})

RECURSIVE NumValue(_, _, _)
NumValue(s, i, j) ==
    IF j < i THEN 0 ELSE 10 * NumValue(s, i, j - 1) + DigitValue(s[j])

\* a key set twice keeps its first position and takes the later value
SetMember(ms, key, x) ==
    IF \E k \in 1..Len(ms) : ms[k][1] = key
    THEN [k \in 1..Len(ms) |-> IF ms[k][1] = key THEN <<key, x>> ELSE ms[k]]
    ELSE Append(ms, <<key, x>>)

RECURSIVE ParseValue(_, _), ParseElements(_, _, _), ParseMembers(_, _, _)

ParseValue(s, i0) ==
    LET i == SkipWs(s, i0) IN
    IF i > Len(s) THEN ParseFail
    ELSE IF s[i] = "{" THEN
        LET j == SkipWs(s, i + 1) IN
        IF j <= Len(s) /\ s[j] = "}" THEN Parsed(Obj(<<>>), j + 1)
        ELSE ParseMembers(s, j, <<>>)
    ELSE IF s[i] = "[" THEN
        LET j == SkipWs(s, i + 1) IN
        IF j <= Len(s) /\ s[j] = "]" THEN Parsed(Arr(<<>>), j + 1)
        ELSE ParseElements(s, j, <<>>)
    ELSE IF s[i] = Quote THEN
        LET e == StringEnd(s, i + 1) IN
        IF e = 0 THEN ParseFail ELSE Parsed(Str(SubSeq(s, i + 1, e - 1)), e + 1)
    ELSE IF s[i] \in Digits THEN
        LET e == NumberEnd(s, i) IN
        IF s[i] = "0" /\ e > i + 1 THEN ParseFail
        ELSE Parsed(Num(NumValue(s, i, e - 1)), e)
    ELSE IF StartsWithAt(s, i, <<"n", "u", "l", "l">>) THEN Parsed(Null, i + 4)
    ELSE IF StartsWithAt(s, i, <<"t", "r", "u", "e">>) THEN Parsed(Bool(TRUE), i + 4)
    ELSE IF StartsWithAt(s, i, <<"f", "a", "l", "s", "e">>) THEN Parsed(Bool(FALSE), i + 5)
    ELSE ParseFail

\* the elements of an array, from the first character of an element
ParseElements(s, i, acc) ==
    LET r == ParseValue(s, i) IN
    IF ~r.ok THEN ParseFail
    ELSE LET j == SkipWs(s, r.pos)
             es == Append(acc, r.val) IN
         IF j > Len(s) THEN ParseFail
         ELSE IF s[j] = "]" THEN Parsed(Arr(es), j + 1)
         ELSE IF s[j] = "," THEN ParseElements(s, j + 1, es)
         ELSE ParseFail

\* the members of an object, from the opening quote of a key
ParseMembers(s, i0, acc) ==
    LET i == SkipWs(s, i0) IN
    IF i > Len(s) \/ s[i] # Quote THEN ParseFail
    ELSE LET e == StringEnd(s, i + 1) IN
         IF e = 0 THEN ParseFail
         ELSE LET c == SkipWs(s, e + 1) IN
              IF c > Len(s) \/ s[c] # ":" THEN ParseFail
              ELSE LET r == ParseValue(s, c + 1) IN
                   IF ~r.ok THEN ParseFail
                   ELSE LET j == SkipWs(s, r.pos)
                            ms == SetMember(acc, SubSeq(s, i + 1, e - 1), r.val) IN
                        IF j > Len(s) THEN ParseFail
                        ELSE IF s[j] = "}" THEN Parsed(Obj(ms), j + 1)
                        ELSE IF s[j] = "," THEN ParseMembers(s, j + 1, ms)
                        ELSE ParseFail

\* JSON.parse(text): [ok |-> FALSE] where it throws a SyntaxError
ParseJSON(s) ==
    LET r == ParseValue(s, 1) IN
    IF r.ok /\ SkipWs(s, r.pos) = Len(s) + 1 THEN r ELSE ParseFail

\* if (value): false, 0, "", null and undefined are falsy
Truthy(x) ==
    CASE x.t \in {"undefined", "null"} -> FALSE
      [] x.t = "bool" -> x.v
      [] x.t = "num" -> x.v # 0
      [] x.t = "str" -> x.v # <<>>
      [] OTHER -> TRUE

----------------------------------------------------------------------------
(* parseResponse *)

Separator == <<"|", "-", "-", "|">>
Newlines == {"\n", "\r"}

\* the length of the match of /L[\n\r]?R/ at position i, 0 when there is none
BoundaryAt(s, i, left, right) ==
    IF StartsWithAt(s, i, left \o right) THEN Len(left) + Len(right)
    ELSE IF /\ StartsWithAt(s, i, left)
            /\ i + Len(left) <= Len(s)
            /\ s[i + Len(left)] \in Newlines
            /\ StartsWithAt(s, i + Len(left) + 1, right)
         THEN Len(left) + 1 + Len(right)
    ELSE 0

\* text.replace(/L[\n\r]?R/g, 'L|--|R'), from position i: each match, leftmost
\* first, the search going on after it
RECURSIVE ReplaceBoundary(_, _, _, _)
ReplaceBoundary(s, i, left, right) ==
    LET m == First(s, {j \in i..Len(s) : BoundaryAt(s, j, left, right) > 0})
    IN IF m > Len(s) THEN SubSeq(s, i, Len(s))
       ELSE SubSeq(s, i, m - 1) \o left \o Separator \o right
            \o ReplaceBoundary(s, m + BoundaryAt(s, m, left, right), left, right)

\* text.split(sep), from position i
RECURSIVE SplitFrom(_, _, _)
SplitFrom(s, i, sep) ==
    LET m == First(s, {j \in i..Len(s) : StartsWithAt(s, j, sep)})
    IN IF m > Len(s) THEN <<SubSeq(s, i, Len(s))>>
       ELSE <<SubSeq(s, i, m - 1)>> \o SplitFrom(s, m + Len(sep), sep)

Split(s, sep) == SplitFrom(s, 1, sep)

Dechunk(data) ==
    LET a == ReplaceBoundary(data, 1, <<"}">>, <<"{">>)
        b == ReplaceBoundary(a, 1, <<"}", "]">>, <<"[", "{">>)
        c == ReplaceBoundary(b, 1, <<"}">>, <<"[", "{">>)
        d == ReplaceBoundary(c, 1, <<"}", "]">>, <<"{">>)
    IN Split(d, Separator)

\* one turn of dechunkedData.forEach on the pair [last, out]
ParseSegment(acc, segment) ==
    LET data == IF acc.last # <<>> THEN acc.last \o segment ELSE segment
        r == ParseJSON(data)
    IN IF ~r.ok THEN [last |-> data, out |-> acc.out]
       ELSE [last |-> <<>>,
             out |-> IF Truthy(r.val) THEN Append(acc.out, r.val) ELSE acc.out]

RECURSIVE ParseSegments(_, _)
ParseSegments(acc, segments) ==
    IF segments = <<>> THEN acc
    ELSE ParseSegments(ParseSegment(acc, Head(segments)), Tail(segments))

\* parseResponse(data) with this.lastChunk = last: [last, out], the new
\* this.lastChunk and the returned array
parseResponse(data, last) == ParseSegments([last |-> last, out |-> <<>>], Dechunk(data))

----------------------------------------------------------------------------
(* JavaScript values as the handlers use them *)

K_id == <<"i", "d">>
K_method == <<"m", "e", "t", "h", "o", "d">>
K_params == <<"p", "a", "r", "a", "m", "s">>
K_result == <<"r", "e", "s", "u", "l", "t">>
K_subscription == <<"s", "u", "b", "s", "c", "r", "i", "p", "t", "i", "o", "n">>
SubscriptionMark == <<"_">> \o K_subscription
ResponsePrefix == <<"r", "e", "s", "p", "o", "n", "s", "e", "_">>

EvOpen == <<"o", "p", "e", "n">>
EvMessage == <<"m", "e", "s", "s", "a", "g", "e">>
EvError == <<"e", "r", "r", "o", "r">>
EvClose == <<"c", "l", "o", "s", "e">>
EvConnect == <<"c", "o", "n", "n", "e", "c", "t">>
EvEnd == <<"e", "n", "d">>
EvData == <<"d", "a", "t", "a">>

\* the Event object a socket hands to its listener
Event(type) == [t |-> "event", v |-> type]

\* x[key] / x.key: [ok |-> FALSE] where reading a property of undefined or
\* null throws a TypeError
Threw == [ok |-> FALSE, val |-> Undefined]
Got(x) == [ok |-> TRUE, val |-> x]

GetProp(x, key) ==
    IF x.t \in {"undefined", "null"} THEN Threw
    ELSE IF x.t = "obj" /\ \E k \in 1..Len(x.v) : x.v[k][1] = key
         THEN Got(x.v[CHOOSE k \in 1..Len(x.v) : x.v[k][1] = key][2])
    ELSE Got(Undefined)

\* `${x}`
RECURSIVE TemplateString(_)
TemplateString(x) ==
    CASE x.t = "undefined" -> <<"u", "n", "d", "e", "f", "i", "n", "e", "d">>
      [] x.t = "null" -> <<"n", "u", "l", "l">>
      [] x.t = "bool" -> IF x.v THEN <<"t", "r", "u", "e">> ELSE <<"f", "a", "l", "s", "e">>
      [] x.t = "num" -> NumText(x.v)
      [] x.t = "str" -> x.v
      [] x.t = "arr" ->
            Join([k \in 1..Len(x.v) |->
                    IF x.v[k].t \in {"undefined", "null"} THEN <<>> ELSE TemplateString(x.v[k])],
                 <<",">>)
      [] OTHER -> <<"[", "o", "b", "j", "e", "c", "t", " ", "O", "b", "j", "e", "c", "t", "]">>

\* `response_${id}`
ResponseEvent(id) == ResponsePrefix \o TemplateString(id)

----------------------------------------------------------------------------
(* The WebSocket readyState values and the Promise states *)

CONNECTING == "CONNECTING"
OPEN == "OPEN"
CLOSING == "CLOSING"
CLOSED == "CLOSED"

NotOpenError == [t |-> "error", v |-> "Connection error: Connection is not open on send()"]

\* new Promise(...)
NewFuture(payload, rs) ==
    [payload |-> payload, state |-> "pending", value |-> Undefined, at |-> rs]

\* payload.id of request n
IdOf(fs, n) == GetProp(fs[n].payload, K_id).val

\* resolve(value) and reject(reason): a settled promise stays as it is
Resolve(fs, n, x) ==
    IF fs[n].state = "pending"
    THEN [fs EXCEPT ![n].state = "fulfilled", ![n].value = x]
    ELSE fs

Reject(fs, n, reason) ==
    IF fs[n].state = "pending"
    THEN [fs EXCEPT ![n].state = "rejected", ![n].value = reason]
    ELSE fs

----------------------------------------------------------------------------
(* The provider as a record p of the fields the handlers read and write:   *)
(* url, options, sockets, lastChunk, listeners, futures, timers, sent,     *)
(* calls, emits.                                                           *)

connection(p) == Len(p.sockets)
readyState(p) == p.sockets[connection(p)].readyState

\* isConnecting()
isConnecting(p) == readyState(p) = CONNECTING

\* get connected()
connected(p) == connection(p) > 0 /\ readyState(p) = OPEN

\* this._events without the entry of evt
FilterOut(ls, evt) == [e \in DOMAIN ls \ {evt} |-> ls[e]]
\* this._events[evt], in registration order
ListenersOf(ls, evt) == IF evt \in DOMAIN ls THEN ls[evt] ELSE <<>>

\* as removeAllListeners, the event not handed on: every registration goes
removeAllListeners_everyEvent(p, evt) ==
    [p EXCEPT !.sockets[connection(p)].handlers = @ \ {evt},
              !.listeners = <<>>]

\* as removeAllListeners, without the call of super.removeAllListeners
removeAllListeners_socketOnly(p, evt) ==
    [p EXCEPT !.sockets[connection(p)].handlers = @ \ {evt}]

\* removeAllListeners(event): on the socket, then on the EventEmitter
removeAllListeners(p, evt) ==
    [p EXCEPT !.sockets[connection(p)].handlers = @ \ {evt},
              !.listeners = FilterOut(@, evt)]

\* clear()
clear(p) ==
    removeAllListeners(removeAllListeners(removeAllListeners(p, EvError), EvEnd), EvData)

\* this.on(event, fn)
on(p, evt, fn) ==
    [p EXCEPT !.listeners =
        [e \in DOMAIN @ \cup {evt} |->
            IF e = evt THEN Append(ListenersOf(@, evt), fn) ELSE @[e]]]

\* the listener send() registers for request n
Waiter(n) == [kind |-> "waiter", of |-> n]
\* a listener registered by a collaborator
User(name) == [kind |-> "user", of |-> name]

\* one listener called with arg
Invoke(p, fn, arg) ==
    IF fn.kind = "waiter"
    THEN LET q == removeAllListeners(p, ResponseEvent(IdOf(p.futures, fn.of)))
         IN [q EXCEPT !.futures = Resolve(@, fn.of, arg)]
    ELSE [p EXCEPT !.calls = Append(@, [fn |-> fn.of, arg |-> arg])]

RECURSIVE InvokeAll(_, _, _)
InvokeAll(p, ls, arg) ==
    IF ls = <<>> THEN p
    ELSE InvokeAll(Invoke(p, Head(ls), arg), Tail(ls), arg)

\* this.emit(event, arg): the listeners registered when emit starts are called in
\* registration order
emit(p, evt, arg) ==
    InvokeAll([p EXCEPT !.emits = Append(@, [evt |-> evt, arg |-> arg])],
              ListenersOf(p.listeners, evt), arg)

----------------------------------------------------------------------------
(* The inputs of the model *)

Payload(id) == Obj(<< <<K_id, id>> >>)
Payloads == {Payload(Num(1)), Payload(Num(2))}

Response(id, result) == Obj(<< <<K_id, id>>, <<K_result, result>> >>)
Notification(sub) ==
    Obj(<< <<K_method, Str(SubscriptionMark)>>,
           <<K_params, Obj(<< <<K_subscription, sub>> >>)>> >>)

SubA == <<"0", "x", "a">>
SubB == <<"0", "x", "b">>

\* what collaborators listen to: subscription ids and the error event
Registrations ==
    {[evt |-> SubA, fn |-> User("a1")], [evt |-> SubB, fn |-> User("b1")],
     [evt |-> EvError, fn |-> User("e1")]}

\* the length of the chunk that ends inside a value
FragmentLen == 4

\* the beginning of a response
Fragment == SubSeq(Stringify(Response(Num(1), Num(5))), 1, FragmentLen)

\* what the node sends
Chunks ==
    {Stringify(Response(Num(1), Num(5))),
     Stringify(Response(Num(1), Num(6))),
     Stringify(Response(Num(2), Num(5))),
     Stringify(Notification(Str(SubA))),
     Stringify(Notification(Str(SubB))),
     Stringify(Notification(Str(SubA))) \o Stringify(Response(Num(2), Num(5))),
     \* a batch reply
     Stringify(Arr(<<Response(Num(1), Num(5)), Response(Num(2), Num(5))>>)),
     \* a notification whose subscription id is the event name of a request
     Stringify(Notification(Str(ResponseEvent(Num(1))))),
     \* a notification without params, then a response
     Stringify(Obj(<< <<K_method, Str(SubscriptionMark)>> >>))
        \o Stringify(Response(Num(1), Num(5))),
     \* the beginning of a response, the rest of which has not arrived
     Fragment}

\* parseResponse on the chunks of the model with no leftover, computed once
Decoded == [data \in Chunks |-> parseResponse(data, <<>>)]

\* parseResponse on the chunks of the model after the fragment, computed once
DecodedAfterFragment == [data \in Chunks |-> parseResponse(data, Fragment)]

\* this.parseResponse(data) with this.lastChunk = last
Decode(data, last) ==
    IF last = <<>> /\ data \in Chunks THEN Decoded[data]
    ELSE IF last = Fragment /\ data \in Chunks THEN DecodedAfterFragment[data]
    ELSE parseResponse(data, last)

----------------------------------------------------------------------------
(* onMessage *)

\* result.method && result.method.indexOf('_subscription') !== -1:
\* [ok |-> FALSE] where method has no indexOf and the call throws
IsSubscription(result) ==
    LET method == GetProp(result, K_method).val IN
    IF ~Truthy(method) THEN Got(FALSE)
    ELSE IF method.t = "str" THEN Got(Contains(method.v, SubscriptionMark))
    ELSE IF method.t = "arr"
         THEN Got(\E k \in 1..Len(method.v) : method.v[k] = Str(SubscriptionMark))
    ELSE Threw

\* the id the response is dispatched under
ResultId(result) ==
    IF result.t = "arr"
    THEN GetProp(IF result.v = <<>> THEN Undefined ELSE result.v[1], K_id)
    ELSE GetProp(result, K_id)

\* the event a decoded value is emitted under: [ok |-> FALSE] where reading it throws
EventOf(result) ==
    LET sub == IsSubscription(result) IN
    IF ~sub.ok THEN Threw
    ELSE IF sub.val
         THEN LET s == GetProp(GetProp(result, K_params).val, K_subscription) IN
              IF s.ok THEN Got(TemplateString(s.val)) ELSE Threw
    ELSE LET id == ResultId(result) IN
         IF id.ok THEN Got(ResponseEvent(id.val)) ELSE Threw

\* as DispatchResult, the listeners removed after a notification too
DispatchResult_oneShot(p, result) ==
    removeAllListeners(emit(p, EventOf(result).val, result), EventOf(result).val)

\* the body of the forEach callback, for a value whose fields can be read
DispatchResult(p, result) ==
    IF IsSubscription(result).val
    THEN emit(p, EventOf(result).val, result)
    ELSE removeAllListeners(emit(p, EventOf(result).val, result), EventOf(result).val)

\* as DispatchAll, the values taken from the last one to the first
RECURSIVE DispatchAll_lastFirst(_, _)
DispatchAll_lastFirst(p, results) ==
    IF results = <<>> THEN p
    ELSE IF ~EventOf(results[Len(results)]).ok THEN p
    ELSE DispatchAll_lastFirst(DispatchResult(p, results[Len(results)]),
                               SubSeq(results, 1, Len(results) - 1))

\* parseResponse(...).forEach(...): a TypeError in the callback ends the loop
RECURSIVE DispatchAll(_, _)
DispatchAll(p, results) ==
    IF results = <<>> THEN p
    ELSE IF ~EventOf(Head(results)).ok THEN p
    ELSE DispatchAll(DispatchResult(p, Head(results)), Tail(results))

onMessage(p, data) ==
    LET r == Decode(data, p.lastChunk)
    IN DispatchAll([p EXCEPT !.lastChunk = r.last], r.out)

----------------------------------------------------------------------------
(* Buffer.from(text, 'base64'), as connect uses it *)

K_headers == <<"h", "e", "a", "d", "e", "r", "s">>
K_authorization == <<"a", "u", "t", "h", "o", "r", "i", "z", "a", "t", "i", "o", "n">>
Basic == <<"B", "a", "s", "i", "c", " ">>

\* the characters of codes 32 to 95 and of codes 97 to 126; the character of
\* code 96 is in no text here
AsciiLow ==
    <<" ", "!", "\"", "#", "$", "%", "&", "'", "(", ")", "*", "+", ",", "-", ".", "/",
      "0", "1", "2", "3", "4", "5", "6", "7", "8", "9", ":", ";", "<", "=", ">", "?",
      "@", "A", "B", "C", "D", "E", "F", "G", "H", "I", "J", "K", "L", "M", "N", "O",
      "P", "Q", "R", "S", "T", "U", "V", "W", "X", "Y", "Z", "[", "\\", "]", "^", "_">>
AsciiHigh ==
    <<"a", "b", "c", "d", "e", "f", "g", "h", "i", "j", "k", "l", "m", "n", "o",
      "p", "q", "r", "s", "t", "u", "v", "w", "x", "y", "z", "{", "|", "}", "~">>
CodeOfSpace == 32
CodeOfSmallA == 97
CharCode(c) ==
    IF \E k \in 1..Len(AsciiLow) : AsciiLow[k] = c
    THEN CodeOfSpace - 1 + CHOOSE k \in 1..Len(AsciiLow) : AsciiLow[k] = c
    ELSE CodeOfSmallA - 1 + CHOOSE k \in 1..Len(AsciiHigh) : AsciiHigh[k] = c
\* a byte as text; a byte that is no character of these reads as U+FFFD
CharOf(b) ==
    IF b >= CodeOfSpace /\ b < CodeOfSpace + Len(AsciiLow)
    THEN AsciiLow[b - CodeOfSpace + 1]
    ELSE IF b >= CodeOfSmallA /\ b < CodeOfSmallA + Len(AsciiHigh)
         THEN AsciiHigh[b - CodeOfSmallA + 1]
    ELSE "U+FFFD"

Base64Alphabet ==
    <<"A", "B", "C", "D", "E", "F", "G", "H", "I", "J", "K", "L", "M", "N", "O", "P",
      "Q", "R", "S", "T", "U", "V", "W", "X", "Y", "Z", "a", "b", "c", "d", "e", "f",
      "g", "h", "i", "j", "k", "l", "m", "n", "o", "p", "q", "r", "s", "t", "u", "v",
      "w", "x", "y", "z", "0", "1", "2", "3", "4", "5", "6", "7", "8", "9", "+", "/">>
Base64Chars == {Base64Alphabet[k] : k \in 1..Len(Base64Alphabet)}
Sextet(c) == (CHOOSE k \in 1..Len(Base64Alphabet) : Base64Alphabet[k] = c) - 1

\* the bytes of a sequence of sextets
RECURSIVE SextetsToBytes(_)
SextetsToBytes(q) ==
    IF Len(q) < 2 THEN <<>>
    ELSE LET b1 == q[1] * 4 + q[2] \div 16 IN
         IF Len(q) = 2 THEN <<b1>>
         ELSE LET b2 == (q[2] % 16) * 16 + q[3] \div 4 IN
              IF Len(q) = 3 THEN <<b1, b2>>
              ELSE <<b1, b2, (q[3] % 4) * 64 + q[4]>>
                   \o SextetsToBytes(SubSeq(q, 5, Len(q)))

\* Buffer.from(text, 'base64'): characters outside the alphabet are skipped
Base64Decode(text) ==
    LET cs == SelectSeq(text, LAMBDA c : c \in Base64Chars)
    IN SextetsToBytes([k \in 1..Len(cs) |-> Sextet(cs[k])])

\* the base64 text of a sequence of bytes
RECURSIVE Base64EncodeBytes(_)
Base64EncodeBytes(bs) ==
    IF bs = <<>> THEN <<>>
    ELSE LET c1 == Base64Alphabet[bs[1] \div 4 + 1] IN
         IF Len(bs) = 1
         THEN <<c1, Base64Alphabet[(bs[1] % 4) * 16 + 1], "=", "=">>
         ELSE LET c2 == Base64Alphabet[(bs[1] % 4) * 16 + bs[2] \div 16 + 1] IN
              IF Len(bs) = 2
              THEN <<c1, c2, Base64Alphabet[(bs[2] % 16) * 4 + 1], "=">>
              ELSE <<c1, c2, Base64Alphabet[(bs[2] % 16) * 4 + bs[3] \div 64 + 1],
                     Base64Alphabet[(bs[3] % 64) + 1]>>
                   \o Base64EncodeBytes(SubSeq(bs, 4, Len(bs)))

\* base64 of a text
Base64Encode(text) == Base64EncodeBytes([k \in 1..Len(text) |-> CharCode(text[k])])

Buffer(bytes) == [t |-> "buffer", v |-> bytes]
\* `${buffer}`
BufferToString(bytes) == [k \in 1..Len(bytes) |-> CharOf(bytes[k])]

----------------------------------------------------------------------------
(* The other handlers and methods *)

onOpen(p, event) == emit(p, EvOpen, event)
onError(p, error) == emit(clear(p), EvError, error)
onClose(p) == emit(clear(p), EvClose, Undefined)

\* new Ws(url, protocol, undefined, headers, undefined, clientConfig) with the
\* five listeners added
NewSocket(headers) ==
    [readyState |-> CONNECTING,
     handlers |-> {EvOpen, EvMessage, EvError, EvClose, EvConnect},
     closeFired |-> FALSE,
     headers |-> headers]

\* options.headers || {}
HeadersOf(opts) ==
    LET h == GetProp(opts, K_headers).val IN IF Truthy(h) THEN h ELSE Obj(<<>>)

\* the token connect ends with
AuthToken(parsedURL) ==
    IF parsedURL.auth # <<>> THEN Buffer(Base64Decode(parsedURL.auth))
    ELSE IF parsedURL.username # <<>> /\ parsedURL.password # <<>>
         THEN Buffer(Base64Decode(parsedURL.username \o <<":">> \o parsedURL.password))
    ELSE Undefined

\* the headers connect hands to the socket; the object is options.headers itself
\* where the caller gave one
ConnectHeaders(parsedURL, opts) ==
    LET h0 == HeadersOf(opts)
        h1 == IF parsedURL.username # <<>> /\ parsedURL.password # <<>>
              THEN Obj(SetMember(h0.v, K_authorization,
                    Str(Basic \o BufferToString(Base64Decode(
                        parsedURL.username \o <<":">> \o parsedURL.password)))))
              ELSE h0
    IN Obj(SetMember(h1.v, K_authorization, AuthToken(parsedURL)))

\* connect(url, options), called with this.url and this.options
connect(p) ==
    LET headers == ConnectHeaders(p.url, p.options) IN
    [p EXCEPT !.sockets = Append(@, NewSocket(headers)),
              !.options = IF Truthy(GetProp(@, K_headers).val)
                          THEN Obj(SetMember(@.v, K_headers, headers))
                          ELSE @]

reset(p) == connect(clear(p))

\* disconnect(code, reason): connection.close(code, reason)
disconnect(p) ==
    IF connection(p) > 0 /\ readyState(p) \in {CONNECTING, OPEN}
    THEN [p EXCEPT !.sockets[connection(p)].readyState = CLOSING]
    ELSE p

\* this.connection.send(JSON.stringify(payload)); this.on(`response_${payload.id}`, ...)
\* On a socket that is not open, connection.send either throws (the rest of the
\* function is skipped) or drops the data, depending on the WebSocket in use.
WriteAndRegister(p, n, throws) ==
    LET payload == p.futures[n].payload
        q == [p EXCEPT !.sent = Append(@, [of |-> n,
                                           data |-> Stringify(payload),
                                           readyState |-> readyState(p),
                                           socket |-> connection(p)])]
    IN IF readyState(p) # OPEN /\ throws THEN q
       ELSE on(q, ResponseEvent(IdOf(p.futures, n)), Waiter(n))

\* as send, rejecting only on a closed connection
send_rejectsWhenClosedOnly(p, payload, throws) ==
    LET n == Len(p.futures) + 1
        p0 == [p EXCEPT !.futures = Append(@, NewFuture(payload, readyState(p)))]
        p1 == IF readyState(p0) = CLOSED
              THEN [p0 EXCEPT !.futures = Reject(@, n, NotOpenError)]
              ELSE p0
    IN IF ~isConnecting(p1) THEN WriteAndRegister(p1, n, throws)
       ELSE [p1 EXCEPT !.timers = @ \cup {n}]

\* the executor of the Promise send(payload) returns, for the n-th request
send(p, payload, throws) ==
    LET n == Len(p.futures) + 1
        p0 == [p EXCEPT !.futures = Append(@, NewFuture(payload, readyState(p)))]
        p1 == IF readyState(p0) # OPEN
              THEN [p0 EXCEPT !.futures = Reject(@, n, NotOpenError)]
              ELSE p0
    IN IF ~isConnecting(p1) THEN WriteAndRegister(p1, n, throws)
       ELSE [p1 EXCEPT !.timers = @ \cup {n}]

\* the setTimeout callback of request n
retry(p, n, throws) ==
    LET q == [p EXCEPT !.timers = @ \ {n}]
    IN IF ~isConnecting(q) THEN WriteAndRegister(q, n, throws) ELSE q

----------------------------------------------------------------------------
(* The state machine *)

\* the provider as an operation finds it
P == [url |-> url, options |-> options, sockets |-> sockets, lastChunk |-> lastChunk, listeners |-> listeners,
      futures |-> futures, timers |-> timers, sent |-> <<>>, calls |-> <<>>,
      emits |-> <<>>]

Becomes(q) ==
    /\ url' = q.url
    /\ options' = q.options
    /\ sockets' = q.sockets
    /\ lastChunk' = q.lastChunk
    /\ listeners' = q.listeners
    /\ futures' = q.futures
    /\ timers' = q.timers
    /\ sent' = q.sent
    /\ calls' = q.calls
    /\ emits' = q.emits

Ran(name, arg) ==
    /\ steps < MaxSteps
    /\ steps' = steps + 1
    /\ op' = [name |-> name, arg |-> arg]

\* the socket s with its readyState set by the WebSocket before it calls a listener
WithState(s, rs) == [P EXCEPT !.sockets[s].readyState = rs]

\* the state new WebsocketProvider(u, o) leaves
Constructed(u, o) ==
    LET q == connect([url |-> u, options |-> IF Truthy(o) THEN o ELSE Obj(<<>>),
                      sockets |-> <<>>])
    IN /\ url = q.url
       /\ options = q.options
       /\ sockets = q.sockets
       /\ lastChunk = <<>>
       /\ listeners = <<>>
       /\ steps = 0
       /\ futures = <<>>
       /\ timers = {}
       /\ op = [name |-> "constructor", arg |-> [url |-> u, options |-> o]]
       /\ sent = <<>>
       /\ calls = <<>>
       /\ emits = <<>>
       /\ returnValues = <<>>

\* a URL without credentials
PlainUrl == [username |-> <<>>, password |-> <<>>, auth |-> <<>>]

\* new WebsocketProvider(url) for a URL without credentials
Init == Constructed(PlainUrl, Undefined)

\* a collaborator calls provider.on(event, listener)
Subscribe(reg) ==
    /\ \A k \in 1..Len(ListenersOf(listeners, reg.evt)) : listeners[reg.evt][k] # reg.fn
    /\ Becomes(on(P, reg.evt, reg.fn))
    /\ Ran("on", reg)
    /\ returnValues' = <<>>

Send(payload, throws) ==
    /\ throws => readyState(P) \in {CLOSING, CLOSED}
    /\ Becomes(send(P, payload, throws))
    /\ Ran("send", payload)
    /\ returnValues' = <<>>

RetryTimeout(n, throws) ==
    /\ n \in timers
    /\ throws => readyState(P) \in {CLOSING, CLOSED}
    /\ Becomes(retry(P, n, throws))
    /\ Ran("retry", n)
    /\ returnValues' = <<>>

SocketOpen(s) ==
    /\ sockets[s].readyState = CONNECTING
    /\ LET q == WithState(s, OPEN)
       IN Becomes(IF EvOpen \in sockets[s].handlers THEN onOpen(q, Event(EvOpen)) ELSE q)
    /\ Ran("onOpen", s)
    /\ returnValues' = <<>>

SocketMessage(s, data) ==
    /\ sockets[s].readyState \in {OPEN, CLOSING}
    /\ EvMessage \in sockets[s].handlers
    /\ Len(lastChunk) <= MaxLeftover
    /\ Becomes(onMessage(P, data))
    /\ Ran("onMessage", data)
    /\ returnValues' = Decode(data, lastChunk).out

\* the socket fails: it is closed when its error event is dispatched
SocketError(s) ==
    /\ sockets[s].readyState # CLOSED
    /\ LET q == WithState(s, CLOSED)
       IN Becomes(IF EvError \in sockets[s].handlers THEN onError(q, Event(EvError)) ELSE q)
    /\ Ran("onError", s)
    /\ returnValues' = <<>>

SocketClose(s) ==
    /\ ~sockets[s].closeFired
    /\ LET q == [WithState(s, CLOSED) EXCEPT !.sockets[s].closeFired = TRUE]
       IN Becomes(IF EvClose \in sockets[s].handlers THEN onClose(q) ELSE q)
    /\ Ran("onClose", s)
    /\ returnValues' = <<>>

Disconnect ==
    /\ readyState(P) \in {CONNECTING, OPEN}
    /\ Becomes(disconnect(P))
    /\ Ran("disconnect", <<>>)
    /\ returnValues' = <<>>

Reset ==
    /\ Becomes(reset(P))
    /\ Ran("reset", [url |-> url, options |-> options])
    /\ returnValues' = <<>>

Next ==
    \/ \E reg \in Registrations : Subscribe(reg)
    \/ \E payload \in Payloads, throws \in BOOLEAN : Send(payload, throws)
    \/ \E n \in 1..Len(futures), throws \in BOOLEAN : RetryTimeout(n, throws)
    \/ \E s \in 1..Len(sockets) : SocketOpen(s)
    \/ \E s \in 1..Len(sockets), data \in Chunks : SocketMessage(s, data)
    \/ \E s \in 1..Len(sockets) : SocketError(s)
    \/ \E s \in 1..Len(sockets) : SocketClose(s)
    \/ Disconnect
    \/ Reset

Spec == Init /\ [][Next]_vars

----------------------------------------------------------------------------
(* parseResponse on its own: the values a node may send, alone or two in   *)
(* one chunk, decoded by a provider that has just been constructed or has  *)
(* a short leftover from the chunk before.                                 *)

JsonAtoms ==
    {Null, Bool(TRUE), Bool(FALSE), Num(0), Num(1), Num(12),
     Str(<<>>), Str(<<"a">>), Str(Separator), Str(<<"}", "{">>)}

JsonComposites ==
    {Arr(<<>>), Arr(<<Num(1)>>), Arr(<<Obj(<<>>)>>),
     Obj(<<>>), Obj(<< <<K_id, Num(1)>> >>),
     Obj(<< <<K_result, Str(<<"}", "{">>)>> >>),
     Obj(<< <<K_result, Str(Separator)>> >>)}

Gaps == {<<>>, <<"\n">>, <<"\r">>}

\* a chunk with the values it was written from
ParseInputs ==
    {[text |-> Stringify(x), values |-> <<x>>] : x \in JsonAtoms \cup JsonComposites}
    \cup {[text |-> Stringify(a) \o gap \o Stringify(b), values |-> <<a, b>>] :
            a \in JsonComposites, b \in JsonComposites, gap \in Gaps}

ParseResponseCall(input) ==
    /\ Len(lastChunk) <= MaxLeftover
    /\ LET r == parseResponse(input.text, lastChunk)
       IN /\ lastChunk' = r.last
          /\ returnValues' = r.out
    /\ op' = [name |-> "parseResponse", arg |-> input]
    /\ UNCHANGED <<url, options, sockets, listeners, futures, timers, sent, calls, emits,
                    steps>>

\* a value the node sends in two chunks: its text cut at an offset inside it
SplitInputs ==
    UNION {{[text |-> IF part = 1 THEN SubSeq(Stringify(x), 1, k)
                                  ELSE SubSeq(Stringify(x), k + 1, Len(Stringify(x))),
             values |-> <<>>, part |-> part, of |-> x, at |-> k] :
                k \in 1..(Len(Stringify(x)) - 1), part \in 1..2} :
           x \in JsonAtoms \cup JsonComposites}

\* the op is parseResponse on the first or the second chunk of a value
IsPart(o, part) ==
    o.name = "parseResponse" /\ "part" \in DOMAIN o.arg /\ o.arg.part = part

\* the first chunk arrives with nothing buffered, the second one right after it
ParseResponseChunk(input) ==
    /\ IF input.part = 1 THEN lastChunk = <<>>
       ELSE IsPart(op, 1) /\ op.arg.of = input.of /\ op.arg.at = input.at
    /\ LET r == parseResponse(input.text, lastChunk)
       IN /\ lastChunk' = r.last
          /\ returnValues' = r.out
    /\ op' = [name |-> "parseResponse", arg |-> input]
    /\ UNCHANGED <<url, options, sockets, listeners, futures, timers, sent, calls, emits,
                    steps>>

NextParse ==
    \/ \E input \in ParseInputs : ParseResponseCall(input)
    \/ \E input \in SplitInputs : ParseResponseChunk(input)

SpecParse == Init /\ [][NextParse]_vars

----------------------------------------------------------------------------
(* connect on its own: a provider constructed for a URL with or without    *)
(* credentials and with or without headers of the caller, then reset.      *)

\* what parseURL reads from the URL: no credentials, user and password, a user
\* alone, and user and password as a parser without the auth field gives them
Urls ==
    {PlainUrl,
     [username |-> <<"u">>, password |-> <<"p">>, auth |-> <<"u", ":", "p">>],
     [username |-> <<"u">>, password |-> <<>>, auth |-> <<"u">>],
     [username |-> <<"a", "b">>, password |-> <<"c", "d">>, auth |-> <<>>]}

K_origin == <<"o", "r", "i", "g", "i", "n">>

\* the options of the caller
OptionSets ==
    {Undefined, Obj(<<>>)}
    \cup {Obj(<< <<K_headers, Obj(h)>> >>) :
            h \in {<<>>,
                   << <<K_authorization, Str(<<"X">>)>> >>,
                   << <<K_origin, Str(<<"o">>)>> >>,
                   << <<K_origin, Str(<<"o">>)>>, <<K_authorization, Str(<<"X">>)>> >>}}

InitConnect == \E u \in Urls, o \in OptionSets : Constructed(u, o)

NextConnect ==
    \/ Reset
    \/ Disconnect
    \/ \E s \in 1..Len(sockets) : SocketOpen(s)
    \/ \E s \in 1..Len(sockets) : SocketClose(s)

SpecConnect == InitConnect /\ [][NextConnect]_vars

----------------------------------------------------------------------------
(* Vocabulary of the properties *)

Requests == 1..Len(futures)
Pending(n) == futures[n].state = "pending"

\* a decoded value that is dispatched as a response
IsResponse(x) == IsSubscription(x).ok /\ ~IsSubscription(x).val /\ ResultId(x).ok
\* a decoded value that is dispatched as a notification of subscription S
IsNotificationOf(x, S) ==
    /\ IsSubscription(x).ok /\ IsSubscription(x).val
    /\ GetProp(GetProp(x, K_params).val, K_subscription) = Got(Str(S))

\* the waiter of request n is registered, in the state and in the next state
HasWaiter(n) ==
    \E k \in 1..Len(ListenersOf(listeners, ResponseEvent(IdOf(futures, n)))) :
        listeners[ResponseEvent(IdOf(futures, n))][k] = Waiter(n)
HasWaiterNext(n) ==
    \E k \in 1..Len(ListenersOf(listeners', ResponseEvent(IdOf(futures, n)))) :
        listeners'[ResponseEvent(IdOf(futures, n))][k] = Waiter(n)

\* a listener of a collaborator is registered, in the state and in the next state
Registered(evt, name) ==
    \E k \in 1..Len(ListenersOf(listeners, evt)) : listeners[evt][k] = User(name)
RegisteredNext(evt, name) ==
    \E k \in 1..Len(ListenersOf(listeners', evt)) : listeners'[evt][k] = User(name)

\* the arguments a listener of collaborators was called with in the step to the
\* next state, in order
CallsOfNext(name) ==
    LET cs == SelectSeq(calls', LAMBDA c : c.fn = name)
    IN [k \in 1..Len(cs) |-> cs[k].arg]

----------------------------------------------------------------------------
(* Request and response *)

\* C1: when onMessage dispatches a response whose id is the payload.id of a
\* request that was sent while the connection was Open and is pending, and it
\* is the first value of the chunk dispatched under that request's event, the
\* request's future is fulfilled with exactly that response; a pending request
\* under whose event the chunk dispatches nothing stays pending and keeps its
\* waiter.
C1_ResponseFulfilsItsRequestOnly ==
    [][op'.name = "onMessage" =>
        \A n \in Requests :
            Pending(n) /\ futures[n].at = OPEN =>
                LET evt == ResponseEvent(IdOf(futures, n)) IN
                /\ \A k \in 1..Len(emits') :
                      /\ IsResponse(emits'[k].arg)
                      /\ ResultId(emits'[k].arg).val = IdOf(futures, n)
                      /\ \A j \in 1..(k - 1) : emits'[j].evt # evt
                      => /\ futures'[n].state = "fulfilled"
                         /\ futures'[n].value = emits'[k].arg
                /\ (\A k \in 1..Len(emits') : emits'[k].evt # evt)
                      => futures'[n] = futures[n] /\ HasWaiterNext(n)]_vars

\* a response to one request has arrived while a request with another id waits
C1_Witness ==
    /\ op.name = "onMessage"
    /\ \E n \in Requests, m \in Requests :
          /\ futures[n].at = OPEN /\ futures[n].state = "fulfilled"
          /\ \E k \in 1..Len(emits) :
                /\ emits[k].arg = futures[n].value
                /\ IsResponse(emits[k].arg)
                /\ ResultId(emits[k].arg).val = IdOf(futures, n)
          /\ IdOf(futures, m) # IdOf(futures, n)
          /\ futures[m].at = OPEN /\ Pending(m) /\ HasWaiter(m)

\* C2: each request is resolved at most once: a settled future never changes,
\* after a response is dispatched no listener is left under its id, and a
\* response under whose id no waiter is registered (a duplicate or a stray)
\* changes no future and no listener and calls no listener.
C2_ResolvedAtMostOnce ==
    [][/\ \A n \in Requests : ~Pending(n) => futures'[n] = futures[n]
       /\ op'.name = "onMessage" =>
            /\ \A k \in 1..Len(emits') :
                  IsResponse(emits'[k].arg) => ListenersOf(listeners', emits'[k].evt) = <<>>
            /\ (\A k \in 1..Len(emits') :
                    /\ IsResponse(emits'[k].arg)
                    /\ ListenersOf(listeners, emits'[k].evt) = <<>>)
                  => futures' = futures /\ listeners' = listeners /\ calls' = <<>>]_vars

\* a response has arrived for an id under which nothing waits any more, while a
\* listener of a collaborator and a settled request exist
C2_Witness ==
    /\ op.name = "onMessage"
    /\ emits # <<>>
    /\ \A k \in 1..Len(emits) :
          IsResponse(emits[k].arg) /\ ListenersOf(listeners, emits[k].evt) = <<>>
    /\ \E n \in Requests :
          /\ futures[n].state = "fulfilled"
          /\ \E k \in 1..Len(emits) :
                /\ ResultId(emits[k].arg).val = IdOf(futures, n)
                /\ emits[k].arg # futures[n].value
    /\ calls = <<>>
    /\ \E reg \in Registrations : Registered(reg.evt, reg.fn.of)

\* C3: send(payload) while the connection is Closing or Closed returns a future
\* that is rejected at once with the connection-not-open error.
C3_SendWhenClosedRejects ==
    [][op'.name = "send" /\ readyState(P) \in {CLOSING, CLOSED} =>
        /\ Len(futures') = Len(futures) + 1
        /\ futures'[Len(futures')].state = "rejected"
        /\ futures'[Len(futures')].value = NotOpenError]_vars

\* send has just been called on a closing or closed connection
C3_Witness ==
    /\ op.name = "send"
    /\ futures[Len(futures)].at \in {CLOSING, CLOSED}
    /\ futures[Len(futures)].state = "rejected"

\* C4: send(payload) while Connecting writes nothing at once; when the socket is
\* Open as the retry delay elapses the payload is written exactly once and the
\* future is not rejected, so that the response can fulfil it.
C4_RetryOnOpenNotRejected ==
    [][/\ op'.name = "send" /\ isConnecting(P) => sent' = <<>>
       /\ op'.name = "retry" /\ readyState(P) = OPEN =>
            /\ Len(sent') = 1
            /\ sent'[1].data = Stringify(futures[op'.arg].payload)
            /\ futures'[op'.arg].state # "rejected"]_vars

\* C5: send(payload) while Connecting, the socket still Connecting as the retry
\* delay elapses: nothing is written, no waiter is registered and the future
\* stays pending.
C5_RetryWhileConnectingStaysPending ==
    [][op'.name = "retry" /\ isConnecting(P) =>
        /\ sent' = <<>>
        /\ ~HasWaiterNext(op'.arg)
        /\ futures'[op'.arg].state = "pending"]_vars

\* C6: when onError or onClose has run for a socket, every request that was
\* pending is rejected and that socket is not Open.
C6_TeardownRejectsPending ==
    [][op'.name \in {"onError", "onClose"} /\ emits' # <<>> =>
        /\ \A n \in Requests : Pending(n) => futures'[n].state = "rejected"
        /\ sockets'[op'.arg].readyState # OPEN]_vars

\* C7: a listener registered for 'error' before the socket reports an error is
\* called with that error.
C7_ErrorReachesListener ==
    [][op'.name = "onError" /\ emits' # <<>> =>
        \A name \in {"e1"} :
            Registered(EvError, name) =>
                \E k \in 1..Len(calls') :
                    calls'[k] = [fn |-> name, arg |-> Event(EvError)]]_vars

\* C18: send on an open connection with the payload.id of a request that is
\* pending and has its waiter returns a future that is rejected, and after
\* every operation at most one waiter is registered under each event.
C18_IdentifierCollisionFails ==
    [][/\ (/\ op'.name = "send" /\ readyState(P) = OPEN
           /\ \E n \in Requests :
                 /\ Pending(n) /\ HasWaiter(n)
                 /\ IdOf(futures, n) = GetProp(op'.arg, K_id).val)
          => futures'[Len(futures')].state = "rejected"
       /\ \A evt \in DOMAIN listeners' :
             Len(SelectSeq(listeners'[evt], LAMBDA fn : fn.kind = "waiter")) <= 1]_vars

----------------------------------------------------------------------------
(* Subscriptions *)

\* C8: in every message step, a listener registered for subscription S is
\* called once for each notification of S in the chunk, in order and with that
\* notification, for nothing else, and it is registered afterwards; so a
\* listener of another subscription is not called.
C8_SubscriptionListenersMultiShot ==
    [][op'.name = "onMessage" =>
        \A S \in {SubA, SubB} : \A name \in {"a1", "b1"} :
            Registered(S, name) =>
                /\ CallsOfNext(name)
                     = SelectSeq(returnValues', LAMBDA x : IsNotificationOf(x, S))
                /\ RegisteredNext(S, name)]_vars

\* a notification has been delivered to the listener of its subscription, which
\* is still registered, and not to the listener of the other subscription
C8_Witness ==
    /\ op.name = "onMessage"
    /\ \E k \in 1..Len(calls) : calls[k].fn = "a1" /\ IsNotificationOf(calls[k].arg, SubA)
    /\ Registered(SubA, "a1")
    /\ Registered(SubB, "b1")
    /\ \A k \in 1..Len(calls) : calls[k].fn # "b1"

\* C19: in every message step a request that is fulfilled is fulfilled with a
\* response, never with a notification; no listener of a lifecycle event is
\* called; and a listener of a subscription is never called with a response.
C19_ChannelsIsolated ==
    [][op'.name = "onMessage" =>
        /\ \A n \in Requests :
              Pending(n) /\ ~Pending(n)' => IsResponse(futures'[n].value)
        /\ \A k \in 1..Len(calls') :
              /\ calls'[k].fn # "e1"
              /\ calls'[k].fn \in {"a1", "b1"} => ~IsResponse(calls'[k].arg)]_vars

----------------------------------------------------------------------------
(* Decoding *)

\* C9: parseResponse on the text of one JSON value, with no leftover, returns
\* exactly that value and leaves no leftover.
C9_SingleValueDecoded ==
    [][op'.name = "parseResponse" /\ lastChunk = <<>> /\ Len(op'.arg.values) = 1 =>
        returnValues' = op'.arg.values /\ lastChunk' = <<>>]_vars

\* C10: parseResponse on the texts of two objects or arrays, one after the
\* other with at most one newline between them, with no leftover, returns
\* exactly the two values in that order.
C10_TwoValuesDecoded ==
    [][/\ op'.name = "parseResponse" /\ lastChunk = <<>>
       /\ Len(op'.arg.values) = 2
       /\ \A k \in 1..2 : op'.arg.values[k].t \in {"obj", "arr"}
       => returnValues' = op'.arg.values]_vars

\* C11: a JSON value arrives cut in two chunks, the first one with no
\* leftover: parseResponse on the first chunk returns nothing and keeps a
\* leftover, and parseResponse on the second chunk, where the first one was
\* kept whole, returns exactly the value and leaves no leftover.
C11_SplitValueReassembled ==
    [][/\ IsPart(op', 1) /\ lastChunk = <<>> =>
            returnValues' = <<>> /\ lastChunk' # <<>>
       /\ IsPart(op', 2) /\ returnValues = <<>> /\ lastChunk = op.arg.text =>
            returnValues' = <<op'.arg.of>> /\ lastChunk' = <<>>]_vars

\* C16: parseResponse on a chunk of one segment, with no leftover, returns the
\* value the segment parses to whenever it parses, be the value null, 0, false
\* or the empty string.
C16_EmptyValuesEmitted ==
    [][/\ op'.name = "parseResponse" /\ lastChunk = <<>>
       /\ Len(Dechunk(op'.arg.text)) = 1
       /\ ParseJSON(op'.arg.text).ok
       => returnValues' = <<ParseJSON(op'.arg.text).val>>]_vars

----------------------------------------------------------------------------
(* Connections *)

\* the sockets that have a listener of the provider for open, message, error or
\* close and have not delivered their close event yet, in the next state
LiveSocketsNext ==
    {s \in 1..Len(sockets') :
        /\ sockets'[s].handlers \cap {EvOpen, EvMessage, EvError, EvClose} # {}
        /\ ~sockets'[s].closeFired}

\* C12: after every operation at most one socket has listeners of the provider
\* and can deliver events to it, and reset leaves the socket it replaces
\* closing or closed and without those listeners.
C12_OneLiveConnection ==
    [][/\ Cardinality(LiveSocketsNext) <= 1
       /\ op'.name = "reset" =>
            /\ sockets'[Len(sockets)].readyState \in {CLOSING, CLOSED}
            /\ sockets'[Len(sockets)].handlers
                    \cap {EvOpen, EvMessage, EvError, EvClose} = {}]_vars

\* the headers of h other than authorization
OtherHeaders(h) == SelectSeq(h.v, LAMBDA m : m[1] # K_authorization)

\* C13: the socket that the constructor or reset has just created got, as its
\* authorization header, Basic and the base64 text of user:password where the
\* URL has both, and the header of the caller where it has not; the other
\* headers are those of the caller.
C13_AuthorizationHeader ==
    op.name \in {"constructor", "reset"} =>
        LET given == HeadersOf(IF Truthy(op.arg.options) THEN op.arg.options ELSE Obj(<<>>))
            got == sockets[Len(sockets)].headers
            u == op.arg.url
        IN /\ OtherHeaders(got) = OtherHeaders(given)
           /\ GetProp(got, K_authorization).val =
                IF u.username # <<>> /\ u.password # <<>>
                THEN Str(Basic \o Base64Encode(u.username \o <<":">> \o u.password))
                ELSE GetProp(given, K_authorization).val

\* C17: reset leaves no leftover, so that the next chunk, the first one of
\* the new connection, is decoded as by a provider that has buffered nothing.
C17_ResetDiscardsLeftover ==
    [][/\ op'.name = "reset" => lastChunk' = <<>>
       /\ op.name = "reset" /\ op'.name = "onMessage" =>
            returnValues' = Decoded[op'.arg].out]_vars

----------------------------------------------------------------------------
(* Writing *)

\* C14: when send runs, and when the callback of its timer runs, the waiter of
\* the request is registered if and only if the connection is Open at that
\* moment; when it is Open the payload is handed to the socket exactly once,
\* and while it is Connecting nothing is handed to it.
C14_WriteOnlyWhenOpen ==
    [][op'.name \in {"send", "retry"} =>
        LET n == IF op'.name = "send" THEN Len(futures') ELSE op'.arg
            evt == ResponseEvent(IdOf(futures', n))
        IN /\ (\E k \in 1..Len(ListenersOf(listeners', evt)) :
                    listeners'[evt][k] = Waiter(n))
                <=> readyState(P) = OPEN
           /\ readyState(P) = OPEN =>
                /\ Len(sent') = 1
                /\ sent'[1].data = Stringify(futures'[n].payload)
           /\ isConnecting(P) => sent' = <<>>]_vars

\* C20: in every message step each decoded value whose fields can be read is
\* dispatched, whatever the values before it in the chunk are.
C20_EveryValueDispatched ==
    [][op'.name = "onMessage" =>
        /\ \A k \in 1..Len(returnValues') :
              EventOf(returnValues'[k]).ok =>
                \E j \in 1..Len(emits') : emits'[j].arg = returnValues'[k]
        /\ Len(emits') = Len(SelectSeq(returnValues', LAMBDA x : EventOf(x).ok))]_vars

----------------------------------------------------------------------------
(* Order *)

\* the events of the next state's emits that have a listener of a collaborator
EmitsToUsersNext ==
    SelectSeq(emits', LAMBDA e :
        \E k \in 1..Len(ListenersOf(listeners, e.evt)) :
            listeners[e.evt][k].kind = "user")

\* C15: in every message step the values are dispatched in the order in which
\* they were decoded, notifications and responses alike: the k-th emit is for
\* the k-th decoded value, the listeners of collaborators are called in the
\* order of the emits that reach them, and a request fulfilled in the step
\* has the value of the first emit under its event.  Steps follow each other
\* in the order in which the chunks arrive.
C15_DispatchInArrivalOrder ==
    [][op'.name = "onMessage" =>
        /\ Len(emits') <= Len(returnValues')
        /\ \A k \in 1..Len(emits') : emits'[k].arg = returnValues'[k]
        /\ Len(calls') = Len(EmitsToUsersNext)
        /\ \A k \in 1..Len(calls') : calls'[k].arg = EmitsToUsersNext[k].arg
        /\ \A n \in Requests :
              Pending(n) /\ ~Pending(n)' =>
                \E k \in 1..Len(emits') :
                    /\ emits'[k].evt = ResponseEvent(IdOf(futures, n))
                    /\ \A j \in 1..(k - 1) : emits'[j].evt # emits'[k].evt
                    /\ futures'[n].value = emits'[k].arg]_vars

\* a chunk of a notification and then a response has been handled: the
\* listener of the subscription was called and the request was fulfilled
C15_Witness ==
    /\ op.name = "onMessage"
    /\ Len(returnValues) = 2
    /\ Len(emits) = 2
    /\ IsNotificationOf(emits[1].arg, SubA)
    /\ IsResponse(emits[2].arg)
    /\ calls = <<[fn |-> "a1", arg |-> emits[1].arg]>>
    /\ \E n \in Requests :
          futures[n].state = "fulfilled" /\ futures[n].value = emits[2].arg

====
